---- MODULE Spec2Model ----
(***************************************************************************)
(* A model of pybuffer: Buffer (buffer.py), RingBuffer (ringbuffer.py),    *)
(* QueueBuffer (queuebuffer.py) and StateBuffer (statebuffer.py).          *)
(*                                                                         *)
(* One buffer instance is modelled.  Its variant and constructor options   *)
(* are chosen in Init.  Buffer declares get_buffer abstract and no variant *)
(* defines it (StateBuffer defines neither _write_operation nor            *)
(* _read_operation either), so the instance is an instance of a subclass   *)
(* that adds the missing abstract methods and nothing else.  Elements are  *)
(* scalars (shape ()) of dtype float64, so ndarray.any() of a slot is "the *)
(* slot is not 0".                                                         *)
(*                                                                         *)
(* Every public call (write, read, add_automation) is one action: the      *)
(* program is single threaded and a call runs to completion.  The          *)
(* placement method _read_operation can also be called by itself; that is  *)
(* the action ReadOperation.                                               *)
(***************************************************************************)
EXTENDS Integers, Sequences, FiniteSets, TLC

\* ---- bounds ----
Size == 3          \* capacity of the buffer (constructor argument size)
MaxVal == 2        \* elements are 0..MaxVal; 0 is the np.zeros default
MaxHooks == 2      \* at most this many add_automation calls
MaxResult == 2     \* hook actions return 1..MaxResult

\* ---- program constants (buffer.py:16) ----
BEFORE_WRITE == 0
AFTER_WRITE == 1
BEFORE_READ == 2
AFTER_READ == 3

Events == {BEFORE_WRITE, AFTER_WRITE, BEFORE_READ, AFTER_READ}
Slots == 0 .. (Size - 1)
Values == 0 .. MaxVal
ResultVals == 1 .. MaxResult
Kinds == {"ring", "queue", "state"}
ColNames == {"chk"}

\* Arguments a caller can pass to write: a 0-d ndarray holding v, a bare
\* Python number (not tuple/list/ndarray), or an ndarray of another shape.
ValidItems == [type : {"ndarray"}, shape : {"ok"}, val : Values]
BadType == [type |-> "scalar", shape |-> "ok", val |-> 1]
BadShape == [type |-> "ndarray", shape |-> "bad", val |-> 1]
Items == ValidItems \cup {BadType, BadShape}
Item(v) == [type |-> "ndarray", shape |-> "ok", val |-> v]
NoItem == [type |-> "none", shape |-> "none", val |-> 0]

\* StateBuffer: the namespace is the tuple of keys, one per slot; the n-th
\* key is called n here.  No namespace (None) is the empty tuple, which no
\* namespace of a buffer with Size > 0 can be (statebuffer.py:19).  A
\* position is an int or a str; the str Size + 1 is a key in no namespace.
Namespace == [n \in 1 .. Size |-> n]
NoNamespace == <<>>
Positions == [t : {"int"}, v : (0 - 1) .. Size]
               \cup [t : {"str"}, v : 1 .. (Size + 1)]
NoPosition == [t |-> "none", v |-> 0]
NoHook == [function |-> "none", when |-> 0, condition |-> "None",
           store_result_as |-> "None"]

VARIABLES kind, over_write, namespace, buffer, write_pointer, read_pointer,
          automations, automation_results, last, phase, wlog, rlog,
          written, slot_status, buffer2, write_pointer2, read_pointer2

vars == <<kind, over_write, namespace, buffer, write_pointer, read_pointer,
          automations, automation_results, last, phase, wlog, rlog,
          written, slot_status, buffer2, write_pointer2, read_pointer2>>

\* The fields the placement methods use, as one record.
Fields(b, wp, rp) == [buffer |-> b, write_pointer |-> wp, read_pointer |-> rp]
Self == Fields(buffer, write_pointer, read_pointer)

\* ---- Buffer: pointer arithmetic ----
advance_write_pointer(s) ==
    [s EXCEPT !.write_pointer = (s.write_pointer + 1) % Size]

advance_read_pointer(s) ==
    [s EXCEPT !.read_pointer = (s.read_pointer + 1) % Size]

\* ndarray.any() of one scalar slot
any(x) == x # 0

\* ---- RingBuffer ----
Ring_is_full(s) ==
    s.write_pointer = s.read_pointer /\ any(s.buffer[s.read_pointer])

Ring_is_empty(s) ==
    s.write_pointer = s.read_pointer /\ ~Ring_is_full(s)

\* isinstance / shape validation shared by both _write_operation methods
validation_error(item) ==
    item.type # "ndarray" \/ item.shape # "ok"

\* RingBuffer._write_operation after validation; is_full is read after the
\* slot has been stored.
Ring_write_operation(s, item) ==
    LET s1 == [s EXCEPT !.buffer[s.write_pointer] = item.val]
        s2 == IF Ring_is_full(s1) THEN advance_read_pointer(s1) ELSE s1
    IN  [self |-> advance_write_pointer(s2), ret |-> TRUE]

\* _read_operation without the is_empty test.
Ring_read_operation_unchecked(s) ==
    [self |-> advance_read_pointer(s), kind |-> "elem",
     val |-> s.buffer[s.read_pointer]]

Ring_read_operation(s) ==
    IF Ring_is_empty(s)
    THEN [self |-> s, kind |-> "None", val |-> 0]
    ELSE [self |-> advance_read_pointer(s), kind |-> "elem",
          val |-> s.buffer[s.read_pointer]]

\* ---- QueueBuffer ----
Queue_is_empty(s) == s.write_pointer = 0

Queue_is_full(s) == s.write_pointer >= Size

Queue_advance_write_pointer(s) ==
    IF s.write_pointer < Size
    THEN [s EXCEPT !.write_pointer = s.write_pointer + 1]
    ELSE s

\* self._buffer[:-1] = self._buffer[1:]
shift_left(b) ==
    [i \in Slots |-> IF i < Size - 1 THEN b[i + 1] ELSE b[i]]

Queue_write_operation(s, item, ow) ==
    IF Queue_is_full(s)
    THEN IF ow
         THEN [self |-> [s EXCEPT !.buffer =
                           [shift_left(s.buffer) EXCEPT ![Size - 1] = item.val]],
               ret |-> TRUE]
         ELSE [self |-> s, ret |-> FALSE]
    ELSE [self |-> Queue_advance_write_pointer(
                     [s EXCEPT !.buffer[s.write_pointer] = item.val]),
          ret |-> TRUE]

Queue_read_operation(s) ==
    IF Queue_is_empty(s)
    THEN [self |-> s, kind |-> "None", val |-> 0]
    ELSE [self |-> [s EXCEPT !.buffer = shift_left(s.buffer),
                             !.write_pointer = s.write_pointer - 1],
          kind |-> "elem", val |-> s.buffer[0]]

\* ---- dispatch on the variant ----
is_full(k, s) == IF k = "ring" THEN Ring_is_full(s) ELSE Queue_is_full(s)

is_empty(k, s) == IF k = "ring" THEN Ring_is_empty(s) ELSE Queue_is_empty(s)

write_operation(k, s, item, ow) ==
    IF k = "ring" THEN Ring_write_operation(s, item)
    ELSE Queue_write_operation(s, item, ow)

read_operation(k, s) ==
    IF k = "ring" THEN Ring_read_operation(s) ELSE Queue_read_operation(s)

\* ---- StateBuffer ----
\* self._namespace.index(key): the least 0-based index holding key
namespace_index(ns, key) ==
    (CHOOSE n \in 1 .. Len(ns) :
        ns[n] = key /\ \A m \in 1 .. (n - 1) : ns[m] # key) - 1

in_namespace(ns, key) == \E n \in 1 .. Len(ns) : ns[n] = key

\* self._buffer[idx] = item: numpy stores the value of a number or 0-d
\* array and raises ValueError for an array that does not fit the slot.
assign_fails(item) == item.shape # "ok"

Raise(s, exc) == [self |-> s, kind |-> "raise", val |-> 0, exc |-> exc]

\* State_write with the slot after the addressed one stored.
State_write_next_slot(s, ns, item, position) ==
    IF position.t = "str" /\ ns # NoNamespace
    THEN IF ~in_namespace(ns, position.v) \/ assign_fails(item)
         THEN Raise(s, "ValueError: key not found")
         ELSE [self |-> [s EXCEPT
                 !.buffer[(namespace_index(ns, position.v) + 1) % Size]
                     = item.val],
               kind |-> "bool", val |-> 1, exc |-> "none"]
    ELSE IF position.t = "int" /\ ns = NoNamespace
    THEN IF 0 <= position.v /\ position.v < Size
         THEN IF assign_fails(item)
              THEN Raise(s, "ValueError: setting an array element")
              ELSE [self |-> [s EXCEPT !.buffer[(position.v + 1) % Size]
                                          = item.val],
                    kind |-> "bool", val |-> 1, exc |-> "none"]
         ELSE Raise(s, "IndexError: out of bounds")
    ELSE Raise(s, "ValueError: expected position indexing of type")

\* State_write with `position < self._size` as the only bounds test.
State_write_no_lower_bound(s, ns, item, position) ==
    IF position.t = "str" /\ ns # NoNamespace
    THEN IF ~in_namespace(ns, position.v) \/ assign_fails(item)
         THEN Raise(s, "ValueError: key not found")
         ELSE [self |-> [s EXCEPT !.buffer[namespace_index(ns, position.v)]
                                     = item.val],
               kind |-> "bool", val |-> 1, exc |-> "none"]
    ELSE IF position.t = "int" /\ ns = NoNamespace
    THEN IF position.v < Size
         THEN IF assign_fails(item)
              THEN Raise(s, "ValueError: setting an array element")
              ELSE [self |-> [s EXCEPT
                      !.buffer[IF position.v < 0 THEN position.v + Size
                               ELSE position.v] = item.val],
                    kind |-> "bool", val |-> 1, exc |-> "none"]
         ELSE Raise(s, "IndexError: out of bounds")
    ELSE Raise(s, "ValueError: expected position indexing of type")

\* StateBuffer.write.  With a namespace the assignment is inside the try,
\* so its ValueError is reported as a missing key too.
State_write(s, ns, item, position) ==
    IF position.t = "str" /\ ns # NoNamespace
    THEN IF ~in_namespace(ns, position.v) \/ assign_fails(item)
         THEN Raise(s, "ValueError: key not found")
         ELSE [self |-> [s EXCEPT !.buffer[namespace_index(ns, position.v)]
                                     = item.val],
               kind |-> "bool", val |-> 1, exc |-> "none"]
    ELSE IF position.t = "int" /\ ns = NoNamespace
    THEN IF 0 <= position.v /\ position.v < Size
         THEN IF assign_fails(item)
              THEN Raise(s, "ValueError: setting an array element")
              ELSE [self |-> [s EXCEPT !.buffer[position.v] = item.val],
                    kind |-> "bool", val |-> 1, exc |-> "none"]
         ELSE Raise(s, "IndexError: out of bounds")
    ELSE Raise(s, "ValueError: expected position indexing of type")

\* StateBuffer.read
State_read(s, ns, position) ==
    IF position.t = "str" /\ ns # NoNamespace
    THEN IF ~in_namespace(ns, position.v)
         THEN Raise(s, "ValueError: key not found")
         ELSE [self |-> s, kind |-> "elem",
               val |-> s.buffer[namespace_index(ns, position.v)],
               exc |-> "none"]
    ELSE IF position.t = "int" /\ ns = NoNamespace
    THEN IF 0 <= position.v /\ position.v < Size
         THEN [self |-> s, kind |-> "elem", val |-> s.buffer[position.v],
               exc |-> "none"]
         ELSE Raise(s, "IndexError: out of bounds")
    ELSE Raise(s, "ValueError: expected position indexing of type")

\* ---- Buffer: automation subsystem ----
\* A registered tuple (condition, function, result_column).  condition and
\* store_result_as are "None" when the argument was not given.
Hooks == [condition : {"None", "g"}, function : {"f"},
          store_result_as : {"None"} \cup ColNames]

\* The subscript _trigger_automations uses for the result column.
cell_subscript(event, s) ==
    CASE event = AFTER_WRITE -> s.write_pointer - 1
      [] event = AFTER_READ -> s.read_pointer - 1
      [] event = BEFORE_WRITE -> s.write_pointer
      [] event = BEFORE_READ -> s.read_pointer

\* numpy subscripting of an axis of length Size: negative subscripts count
\* from the end, anything outside -Size .. Size-1 raises IndexError.
subscript_ok(i) == i >= 0 - Size /\ i < Size

py_index(i) == IF i < 0 THEN i + Size ELSE i

\* One callback invocation and what it returned (a guard: 1 or 0; Fails when
\* the callback raised).
Call(what, event, k, ret) ==
    [what |-> what, event |-> event, k |-> k, ret |-> ret]

\* A guard returns true or false or raises; an action returns a value or
\* raises (Fails).  Nothing in _trigger_automations catches an exception.
GuardOutcomes == {"True", "False", "raise"}
Fails == 0 - 1

\* The loop of _trigger_automations from the k-th tuple of hs on.  gs[k] is
\* what the k-th guard does and rs[k] what the k-th action does.
\* acc.results is _automation_results, acc.exc the exception leaving the
\* loop ("none" while there is none), acc.calls the callbacks invoked.
\* trigger_from with every exception caught inside the loop: the
\* remaining hooks still run.
RECURSIVE trigger_from_keeps_going(_, _, _, _, _, _, _)
trigger_from_keeps_going(hs, k, event, s, gs, rs, acc) ==
    IF k > Len(hs) THEN acc
    ELSE
      LET h == hs[k]
          guarded == h.condition # "None"
          guard_raises == guarded /\ gs[k] = "raise"
          passes == ~guarded \/ gs[k] = "True"
          calls1 == IF guarded THEN Append(acc.calls,
                           Call("guard", event, k,
                                CASE gs[k] = "True" -> 1
                                  [] gs[k] = "False" -> 0
                                  [] gs[k] = "raise" -> Fails))
                    ELSE acc.calls
          calls2 == IF passes THEN Append(calls1,
                           Call("action", event, k, rs[k]))
                    ELSE calls1
          stores == passes /\ h.store_result_as # "None"
          i == cell_subscript(event, s)
          acc1 ==
            IF guard_raises
            THEN [acc EXCEPT !.calls = calls1, !.exc = "HookError"]
            ELSE IF passes /\ rs[k] = Fails
            THEN [acc EXCEPT !.calls = calls2, !.exc = "HookError"]
            ELSE IF ~stores THEN [acc EXCEPT !.calls = calls2]
            ELSE IF ~subscript_ok(i)
                 THEN [acc EXCEPT !.calls = calls2, !.exc = "IndexError"]
                 ELSE [acc EXCEPT !.calls = calls2,
                         !.results[h.store_result_as][py_index(i)] = rs[k]]
      IN  trigger_from_keeps_going(hs, k + 1, event, s, gs, rs, acc1)

RECURSIVE trigger_from(_, _, _, _, _, _, _)
trigger_from(hs, k, event, s, gs, rs, acc) ==
    IF k > Len(hs) \/ acc.exc # "none" THEN acc
    ELSE
      LET h == hs[k]
          guarded == h.condition # "None"
          guard_raises == guarded /\ gs[k] = "raise"
          passes == ~guarded \/ gs[k] = "True"
          calls1 == IF guarded THEN Append(acc.calls,
                           Call("guard", event, k,
                                CASE gs[k] = "True" -> 1
                                  [] gs[k] = "False" -> 0
                                  [] gs[k] = "raise" -> Fails))
                    ELSE acc.calls
          calls2 == IF passes THEN Append(calls1,
                           Call("action", event, k, rs[k]))
                    ELSE calls1
          stores == passes /\ h.store_result_as # "None"
          i == cell_subscript(event, s)
          acc1 ==
            IF guard_raises
            THEN [acc EXCEPT !.calls = calls1, !.exc = "HookError"]
            ELSE IF passes /\ rs[k] = Fails
            THEN [acc EXCEPT !.calls = calls2, !.exc = "HookError"]
            ELSE IF ~stores THEN [acc EXCEPT !.calls = calls2]
            ELSE IF ~subscript_ok(i)
                 THEN [acc EXCEPT !.calls = calls2, !.exc = "IndexError"]
                 ELSE [acc EXCEPT !.calls = calls2,
                         !.results[h.store_result_as][py_index(i)] = rs[k]]
      IN  trigger_from(hs, k + 1, event, s, gs, rs, acc1)

trigger_automations(event, s, hooks, gs, rs, acc) ==
    trigger_from(hooks[event], 1, event, s, gs, rs, acc)

\* Buffer.write: BEFORE_WRITE hooks, _write_operation (validation first,
\* then the placement), AFTER_WRITE hooks.  An exception ends the call where
\* it is raised.  The result holds the fields, the result columns and the
\* outcome of the call.
Buffer_write(k, ow, s, hooks, results, item, gsB, rsB, gsA, rsA) ==
    LET acc0 == [results |-> results, exc |-> "none", calls |-> <<>>]
        b == trigger_automations(BEFORE_WRITE, s, hooks, gsB, rsB, acc0)
    IN  IF b.exc # "none"
        THEN [self |-> s, results |-> b.results, calls |-> b.calls,
              kind |-> "raise", val |-> 0, exc |-> b.exc]
        ELSE IF validation_error(item)
        THEN [self |-> s, results |-> b.results, calls |-> b.calls,
              kind |-> "raise", val |-> 0, exc |-> "ValueError"]
        ELSE
          LET w == write_operation(k, s, item, ow)
              placed == [b EXCEPT !.calls = Append(b.calls,
                                     Call("place", AFTER_WRITE, 0, 0))]
              a == trigger_automations(AFTER_WRITE, w.self, hooks, gsA, rsA,
                                       placed)
          IN  IF a.exc # "none"
              THEN [self |-> w.self, results |-> a.results, calls |-> a.calls,
                    kind |-> "raise", val |-> 0, exc |-> a.exc]
              ELSE [self |-> w.self, results |-> a.results, calls |-> a.calls,
                    kind |-> "bool", val |-> IF w.ret THEN 1 ELSE 0,
                    exc |-> "none"]

\* Buffer.read: BEFORE_READ hooks, then self._read_operation(
\* with_automation_results).  RingBuffer._read_operation and
\* QueueBuffer._read_operation take no parameter besides self, so the call
\* raises TypeError before the method body runs; AFTER_READ hooks are not
\* reached.
Buffer_read(k, s, hooks, results, gsB, rsB) ==
    LET acc0 == [results |-> results, exc |-> "none", calls |-> <<>>]
        b == trigger_automations(BEFORE_READ, s, hooks, gsB, rsB, acc0)
    IN  IF b.exc # "none"
        THEN [self |-> s, results |-> b.results, calls |-> b.calls,
              kind |-> "raise", val |-> 0, exc |-> b.exc]
        ELSE [self |-> s, results |-> b.results, calls |-> b.calls,
              kind |-> "raise", val |-> 0, exc |-> "TypeError"]

\* Buffer.add_automation.  `function not in self.automations[when]` compares
\* the function with the registered tuples, so it holds for every function;
\* the tuple is always appended and the named column is always (re)created
\* as zeros.
InvalidEvent == AFTER_READ + 1

Functions == {"f", "f0"}       \* "f0" does not take exactly one parameter

check_function_signature(function) == function = "f"

add_automation_results_column(results, name) ==
    [c \in (DOMAIN results) \cup {name} |->
        IF c = name THEN [i \in Slots |-> 0] ELSE results[c]]

add_automation(hooks, results, function, when, condition, store_result_as) ==
    IF when \notin Events \/ ~check_function_signature(function)
    THEN [hooks |-> hooks, results |-> results, exc |-> "ValueError"]
    ELSE [hooks |-> [hooks EXCEPT ![when] = Append(@,
                        [condition |-> condition, function |-> function,
                         store_result_as |-> store_result_as])],
          results |-> IF store_result_as # "None"
                      THEN add_automation_results_column(results,
                                                         store_result_as)
                      ELSE results,
          exc |-> "none"]

\* ---- the calls observed so far (history, not program state) ----
\* last: the most recent call and its outcome.
\* phase, wlog, rlog: the run so far is wlog's writes of valid items on the
\* fresh buffer (phase "w"), followed by rlog's reads (phase "r"); any other
\* run is phase "x".
MaxLog == Size + 1

Outcome(op, item, r) ==
    [op |-> op, item |-> item, position |-> NoPosition, hook |-> NoHook,
     kind |-> r.kind, val |-> r.val, exc |-> r.exc, calls |-> r.calls]

LogWrite(item, r) ==
    IF phase = "w" /\ Len(wlog) < MaxLog /\ ~validation_error(item)
    THEN /\ phase' = "w"
         /\ wlog' = Append(wlog, [val |-> item.val, kind |-> r.kind,
                                  ret |-> r.val])
         /\ rlog' = rlog
    ELSE /\ phase' = "x"
         /\ wlog' = <<>>
         /\ rlog' = <<>>

LogRead(op, r) ==
    IF phase \in {"w", "r"} /\ Len(rlog) < MaxLog
    THEN /\ phase' = "r"
         /\ wlog' = wlog
         /\ rlog' = Append(rlog, [op |-> op, kind |-> r.kind, val |-> r.val])
    ELSE /\ phase' = "x"
         /\ wlog' = <<>>
         /\ rlog' = <<>>

\* written[v]: the value of the last item a StateBuffer write stored through
\* the position with int or key v, or a RingBuffer write stored in slot v;
\* Unwritten before the first one.
Unwritten == 0 - 1

\* slot_status[i], kept for a RingBuffer by Write and ReadOperation: "never"
\* until a placement stores an item in slot i, "unread" from each store,
\* "read" once a read placement has returned the slot's element.

\* The call ran the write placement.
Placed(calls) == \E n \in 1 .. Len(calls) : calls[n].what = "place"

NoHooks == [e \in Events |-> <<>>]
NoColumns == [c \in {} |-> [i \in Slots |-> 0]]
Zeros == [i \in Slots |-> 0]

\* Buffer.__init__ and the variants' __init__
Constructed ==
    /\ kind \in Kinds
    /\ over_write \in (IF kind = "queue" THEN BOOLEAN ELSE {FALSE})
    /\ buffer = Zeros
    /\ write_pointer = 0
    /\ read_pointer = 0
    /\ automations = NoHooks
    /\ automation_results = NoColumns
    /\ namespace \in (IF kind = "state" THEN {NoNamespace, Namespace}
                      ELSE {NoNamespace})
    /\ last = [op |-> "init", item |-> NoItem, position |-> NoPosition,
               hook |-> NoHook, kind |-> "None", val |-> 0,
               exc |-> "none", calls |-> <<>>]
    /\ wlog = <<>>
    /\ rlog = <<>>
    /\ written = [v \in 0 .. Size |-> Unwritten]
    /\ slot_status = [i \in Slots |-> "never"]
    /\ buffer2 = Zeros
    /\ write_pointer2 = 0
    /\ read_pointer2 = 0

Init ==
    /\ Constructed
    /\ phase = "w"

\* What the guards and actions of the hooks of an event do in one call.
\* The entry of a guard that does not exist, and of a guard or action that
\* is not invoked (the guard is not true, or an earlier callback raised),
\* has no effect and is fixed.
Guards(event) ==
    {gs \in [1 .. Len(automations[event]) -> GuardOutcomes] :
        \A k \in 1 .. Len(automations[event]) :
            (\/ automations[event][k].condition = "None"
             \/ \E j \in 1 .. (k - 1) : gs[j] = "raise") => gs[k] = "True"}

Returns(event, gs) ==
    {rs \in [1 .. Len(automations[event]) -> ResultVals \cup {Fails}] :
        \A k \in 1 .. Len(automations[event]) :
            (\/ gs[k] # "True"
             \/ \E j \in 1 .. (k - 1) : gs[j] = "raise" \/ rs[j] = Fails)
                => rs[k] = 1}

NumHooks ==
    Len(automations[BEFORE_WRITE]) + Len(automations[AFTER_WRITE])
      + Len(automations[BEFORE_READ]) + Len(automations[AFTER_READ])

\* buf.write(item) on a RingBuffer or QueueBuffer
Write(item) ==
  /\ kind # "state"
  /\
    \E gsB \in Guards(BEFORE_WRITE), gsA \in Guards(AFTER_WRITE) :
    \E rsB \in Returns(BEFORE_WRITE, gsB), rsA \in Returns(AFTER_WRITE, gsA) :
      LET r == Buffer_write(kind, over_write, Self, automations,
                            automation_results, item, gsB, rsB, gsA, rsA)
      IN  /\ buffer' = r.self.buffer
          /\ write_pointer' = r.self.write_pointer
          /\ read_pointer' = r.self.read_pointer
          /\ automation_results' = r.results
          /\ last' = Outcome("write", item, r)
          /\ LogWrite(item, r)
          /\ slot_status' = IF kind = "ring" /\ Placed(r.calls)
                            THEN [slot_status EXCEPT ![write_pointer] = "unread"]
                            ELSE slot_status
          /\ written' = IF kind = "ring" /\ Placed(r.calls)
                        THEN [written EXCEPT ![write_pointer] = item.val]
                        ELSE written
          /\ UNCHANGED <<kind, over_write, namespace, automations,
                         buffer2, write_pointer2, read_pointer2>>

\* buf.read() on a RingBuffer or QueueBuffer
Read ==
  /\ kind # "state"
  /\
    \E gsB \in Guards(BEFORE_READ) :
    \E rsB \in Returns(BEFORE_READ, gsB) :
      LET r == Buffer_read(kind, Self, automations, automation_results,
                           gsB, rsB)
      IN  /\ automation_results' = r.results
          /\ last' = Outcome("read", NoItem, r)
          /\ LogRead("read", r)
          /\ UNCHANGED <<kind, over_write, namespace, buffer, write_pointer,
                         read_pointer, automations, written, slot_status,
                         buffer2, write_pointer2, read_pointer2>>

\* buf._read_operation(): the placement called without the read wrapper
ReadOperation ==
  /\ kind # "state"
  /\
    LET p == read_operation(kind, Self)
        r == [kind |-> p.kind, val |-> p.val, exc |-> "none", calls |-> <<>>]
    IN  /\ buffer' = p.self.buffer
        /\ write_pointer' = p.self.write_pointer
        /\ read_pointer' = p.self.read_pointer
        /\ last' = Outcome("_read_operation", NoItem, r)
        /\ LogRead("_read_operation", r)
        /\ slot_status' = IF kind = "ring" /\ p.kind = "elem"
                          THEN [slot_status EXCEPT ![read_pointer] = "read"]
                          ELSE slot_status
        /\ UNCHANGED <<kind, over_write, namespace, automations,
                       automation_results, written,
                       buffer2, write_pointer2, read_pointer2>>

\* buf.write(item, position) on a StateBuffer: no hook is triggered
StateWrite(item, position) ==
    /\ kind = "state"
    /\ LET r == State_write(Self, namespace, item, position)
       IN  /\ buffer' = r.self.buffer
           /\ last' = [Outcome("write", item,
                               [r EXCEPT !.self = <<>>] @@
                               [calls |-> IF r.kind = "raise" THEN <<>>
                                  ELSE <<Call("place", AFTER_WRITE, 0, 0)>>])
                         EXCEPT !.position = position]
           /\ written' = IF r.kind = "bool"
                         THEN [written EXCEPT ![position.v] = item.val]
                         ELSE written
    /\ UNCHANGED <<kind, over_write, namespace, write_pointer, read_pointer,
                   automations, automation_results, phase, wlog, rlog,
                   slot_status, buffer2, write_pointer2, read_pointer2>>

\* buf.read(position) on a StateBuffer: no hook is triggered
StateRead(position) ==
    /\ kind = "state"
    /\ LET r == State_read(Self, namespace, position)
       IN  last' = [Outcome("read", NoItem,
                            [r EXCEPT !.self = <<>>] @@
                            [calls |-> IF r.kind = "raise" THEN <<>>
                               ELSE <<Call("place", AFTER_READ, 0, 0)>>])
                      EXCEPT !.position = position]
    /\ UNCHANGED <<kind, over_write, namespace, buffer, write_pointer,
                   read_pointer, automations, automation_results, phase,
                   wlog, rlog, written, slot_status, buffer2,
                   write_pointer2, read_pointer2>>

\* buf.add_automation(function, when, condition, store_result_as)
AddAutomation(function, when, condition, store_result_as) ==
    /\ NumHooks < MaxHooks
    /\ LET r == add_automation(automations, automation_results, function,
                               when, condition, store_result_as)
       IN  /\ automations' = r.hooks
           /\ automation_results' = r.results
           /\ last' = [op |-> "add_automation", item |-> NoItem,
                       position |-> NoPosition,
                       hook |-> [function |-> function, when |-> when,
                                 condition |-> condition,
                                 store_result_as |-> store_result_as],
                       kind |-> IF r.exc = "none" THEN "None" ELSE "raise",
                       val |-> 0, exc |-> r.exc, calls |-> <<>>]
    /\ UNCHANGED <<kind, over_write, namespace, buffer, write_pointer,
                   read_pointer, phase, wlog, rlog, written, slot_status,
                   buffer2, write_pointer2, read_pointer2>>

\* Writes and reads of a buffer without automations.
Next ==
    \/ \E item \in Items : Write(item)
    \/ Read
    \/ ReadOperation
    \/ \E item \in Items, position \in Positions : StateWrite(item, position)
    \/ \E position \in Positions : StateRead(position)

Spec == Init /\ [][Next]_vars

\* Writes and reads of a buffer with at most one automation, of any form.
\* The scenario log is off (phase "x") and one valid element value is
\* written.
HookItems == {[type |-> "ndarray", shape |-> "ok", val |-> 1], BadShape}

InitHooks ==
    /\ Constructed
    /\ phase = "x"

NextHooks ==
    \/ \E item \in HookItems : Write(item)
    \/ Read
    \/ ReadOperation
    \/ \E item \in HookItems, position \in Positions :
         StateWrite(item, position)
    \/ \E position \in Positions : StateRead(position)
    \/ \E function \in Functions, when \in Events \cup {InvalidEvent},
          condition \in {"None", "g"},
          store_result_as \in {"None"} \cup ColNames :
         /\ NumHooks = 0
         /\ AddAutomation(function, when, condition, store_result_as)

SpecHooks == InitHooks /\ [][NextHooks]_vars

\* Writes and reads of a RingBuffer or QueueBuffer with up to MaxHooks
\* automations, each with a guard and the result column "chk".
InitChain ==
    /\ Constructed
    /\ kind # "state"
    /\ phase = "x"

NextChain ==
    \/ Write(Item(1))
    \/ Read
    \/ \E when \in Events : AddAutomation("f", when, "g", "chk")

SpecChain == InitChain /\ [][NextChain]_vars


\* Two RingBuffers driven by the same sequence of calls with possibly
\* different element values: the first in buffer, write_pointer,
\* read_pointer, the second in buffer2, write_pointer2, read_pointer2.
Self2 == Fields(buffer2, write_pointer2, read_pointer2)

InitPair ==
    /\ Constructed
    /\ kind = "ring"
    /\ phase = "x"

\* buf.write(v1) on the first buffer, buf2.write(v2) on the second
PairWrite(v1, v2) ==
    LET r == Buffer_write("ring", FALSE, Self, NoHooks, NoColumns, Item(v1),
                          <<>>, <<>>, <<>>, <<>>)
        r2 == Buffer_write("ring", FALSE, Self2, NoHooks, NoColumns, Item(v2),
                           <<>>, <<>>, <<>>, <<>>)
    IN  /\ buffer' = r.self.buffer
        /\ write_pointer' = r.self.write_pointer
        /\ read_pointer' = r.self.read_pointer
        /\ buffer2' = r2.self.buffer
        /\ write_pointer2' = r2.self.write_pointer
        /\ read_pointer2' = r2.self.read_pointer
        /\ last' = Outcome("write", Item(v1), r)
        /\ UNCHANGED <<kind, over_write, namespace, automations,
                       automation_results, phase, wlog, rlog, written,
                       slot_status>>

\* buf.read() and buf2.read()
PairRead ==
    LET r == Buffer_read("ring", Self, NoHooks, NoColumns, <<>>, <<>>)
    IN  /\ last' = Outcome("read", NoItem, r)
        /\ UNCHANGED <<kind, over_write, namespace, buffer, write_pointer,
                       read_pointer, automations, automation_results, phase,
                       wlog, rlog, written, slot_status, buffer2, write_pointer2,
                       read_pointer2>>

\* buf._read_operation() and buf2._read_operation()
PairReadOperation ==
    LET p == Ring_read_operation(Self)
        p2 == Ring_read_operation(Self2)
        r == [kind |-> p.kind, val |-> p.val, exc |-> "none", calls |-> <<>>]
    IN  /\ buffer' = p.self.buffer
        /\ write_pointer' = p.self.write_pointer
        /\ read_pointer' = p.self.read_pointer
        /\ buffer2' = p2.self.buffer
        /\ write_pointer2' = p2.self.write_pointer
        /\ read_pointer2' = p2.self.read_pointer
        /\ last' = Outcome("_read_operation", NoItem, r)
        /\ UNCHANGED <<kind, over_write, namespace, automations,
                       automation_results, phase, wlog, rlog, written,
                       slot_status>>

NextPair ==
    \/ \E v1 \in Values, v2 \in Values : PairWrite(v1, v2)
    \/ PairRead
    \/ PairReadOperation

SpecPair == InitPair /\ [][NextPair]_vars

\* ======================= claims ==========================================

\* Entries of the scenario log.
Elem(v) == [kind |-> "elem", val |-> v]
Returned(e) == [kind |-> e.kind, val |-> e.val]
OnlyRead == \A i \in 1 .. Len(rlog) : rlog[i].op = "read"

\* C1: on a fresh RingBuffer, after k <= Size writes of valid elements and
\* no read, is_full is true exactly when k = Size and is_empty is true
\* exactly when k = 0.
C1_FullExactlyAtCapacity ==
    (kind = "ring" /\ phase = "w" /\ Len(wlog) <= Size) =>
        /\ Ring_is_full(Self) <=> (Len(wlog) = Size)
        /\ Ring_is_empty(Self) <=> (Len(wlog) = 0)

\* C2: on a fresh RingBuffer, N <= Size writes followed by up to N calls of
\* read return the written elements in write order; none of them returns
\* the empty-signal (or raises).
C2_RingRoundTrip ==
    (kind = "ring" /\ phase = "r" /\ OnlyRead
       /\ Len(wlog) <= Size /\ Len(rlog) <= Len(wlog)) =>
        \A i \in 1 .. Len(rlog) : Returned(rlog[i]) = Elem(wlog[i].val)

\* C3: a write to a RingBuffer that holds Size unread elements stores the
\* item in the slot of the oldest live element, advances both pointers by
\* one and leaves the buffer full and not empty; the read right after it
\* returns the oldest element still live (the second oldest before the
\* write).
C3_FullWriteEvicts ==
    [][ /\ (kind = "ring" /\ phase = "w" /\ Len(wlog) >= Size
              /\ last'.op = "write" /\ ~validation_error(last'.item)) =>
            /\ last'.kind = "bool" /\ last'.val = 1
            /\ buffer'[Len(wlog) % Size] = last'.item.val
            /\ read_pointer' = (read_pointer + 1) % Size
            /\ write_pointer' = (write_pointer + 1) % Size
            /\ Ring_is_full(Self')
            /\ ~Ring_is_empty(Self')
        /\ (kind = "ring" /\ phase' = "r" /\ Len(wlog') = Size + 1
              /\ Len(rlog') = 1 /\ rlog'[1].op = "read") =>
            Returned(rlog'[1]) = Elem(wlog'[2].val)
      ]_vars

\* C4: after W > Size writes to a fresh RingBuffer and no read, the next
\* Size reads return the last Size written elements in write order; after
\* the Size-th of them is_empty is true and is_full false, and every
\* further read returns the empty-signal.  After any writes, at most Size
\* reads in a row return an element.
C4_DrainAfterOverrun ==
    (kind = "ring" /\ phase = "r" /\ OnlyRead) =>
        /\ Len(wlog) > Size =>
            /\ \A i \in 1 .. Len(rlog) :
                 IF i <= Size
                 THEN Returned(rlog[i]) = Elem(wlog[Len(wlog) - Size + i].val)
                 ELSE rlog[i].kind = "None"
            /\ Len(rlog) >= Size =>
                 (Ring_is_empty(Self) /\ ~Ring_is_full(Self))
        /\ Cardinality({i \in 1 .. Len(rlog) : rlog[i].kind = "elem"}) <= Size
        /\ Len(rlog) > Size => rlog[Len(rlog)].kind = "None"

\* C5: two RingBuffers that receive the same sequence of writes and reads
\* with different element values agree, after every call, on
\* write_pointer, read_pointer, is_full and is_empty (so the next read
\* returns the empty-signal in both or the element of the same write in
\* both).
C5_OccupancyIgnoresValues ==
    /\ write_pointer = write_pointer2
    /\ read_pointer = read_pointer2
    /\ Ring_is_full(Self) <=> Ring_is_full(Self2)
    /\ Ring_is_empty(Self) <=> Ring_is_empty(Self2)

\* C6: on a fresh QueueBuffer, N <= Size writes of valid elements all
\* return true, and N reads after them return the elements in write order;
\* after the N-th read is_empty is true and one more read returns the
\* empty-signal.
C6_QueueRoundTrip ==
    (kind = "queue" /\ phase \in {"w", "r"} /\ OnlyRead
       /\ Len(wlog) <= Size) =>
        /\ \A i \in 1 .. Len(wlog) : wlog[i].kind = "bool" /\ wlog[i].ret = 1
        /\ \A i \in 1 .. Len(rlog) :
             IF i <= Len(wlog)
             THEN Returned(rlog[i]) = Elem(wlog[i].val)
             ELSE rlog[i].kind = "None"
        /\ (phase = "r" /\ Len(rlog) >= Len(wlog)) => Queue_is_empty(Self)

\* C7: a write of a valid element to a QueueBuffer with over_write off
\* that is full returns false without raising and leaves every slot and
\* the count (write_pointer) as they were.
C7_FullQueueRejects ==
    [][ (kind = "queue" /\ ~over_write /\ Queue_is_full(Self)
           /\ last'.op = "write" /\ ~validation_error(last'.item)) =>
          /\ last'.kind = "bool" /\ last'.val = 0
          /\ buffer' = buffer
          /\ write_pointer' = write_pointer
          /\ read_pointer' = read_pointer
      ]_vars

\* C8: a write of a valid element to a full QueueBuffer with over_write on
\* returns true, drops the oldest element, moves the others one slot to
\* the front, stores the item in the last slot and keeps the count at
\* Size; Size reads after it return the Size-1 newest older elements in
\* write order and then the item.
C8_FullQueueOverwrites ==
    [][ /\ (kind = "queue" /\ over_write /\ Queue_is_full(Self)
              /\ last'.op = "write" /\ ~validation_error(last'.item)) =>
            /\ last'.kind = "bool" /\ last'.val = 1
            /\ \A i \in Slots :
                 buffer'[i] = IF i < Size - 1 THEN buffer[i + 1]
                              ELSE last'.item.val
            /\ write_pointer' = Size
        /\ (kind = "queue" /\ over_write /\ phase' = "r"
              /\ Len(wlog') = Size + 1 /\ Len(rlog') <= Size
              /\ \A i \in 1 .. Len(rlog') : rlog'[i].op = "read") =>
            \A i \in 1 .. Len(rlog') :
                Returned(rlog'[i]) = Elem(wlog'[i + 1].val)
      ]_vars

\* The slot a write call that is about to run stores its element into.
StoreSlot ==
    IF kind = "queue" /\ Queue_is_full(Self) THEN Size - 1 ELSE write_pointer

\* The AFTER_WRITE actions the call recorded in r invoked, by position.
FiredAfterWrite(r) ==
    {k \in 1 .. Len(automations[AFTER_WRITE]) :
        \E n \in 1 .. Len(r.calls) :
            /\ r.calls[n].what = "action"
            /\ r.calls[n].event = AFTER_WRITE
            /\ r.calls[n].k = k}

ReturnOf(r, k) ==
    LET n == CHOOSE n \in 1 .. Len(r.calls) :
                 /\ r.calls[n].what = "action"
                 /\ r.calls[n].event = AFTER_WRITE
                 /\ r.calls[n].k = k
    IN  r.calls[n].ret

\* C9: with only AFTER_WRITE hooks writing to a result column, a write call
\* that stores an element leaves the hook's return value in the column cell
\* of the slot the element was stored into, and a write call changes no
\* other cell of any column (a write call that stores no element changes
\* none).
C9_AfterWriteCell ==
    [][ (kind # "state" /\ last'.op = "write"
           /\ automations[BEFORE_WRITE] = <<>>) =>
          LET stored == last'.kind = "bool" /\ last'.val = 1
              hs == automations[AFTER_WRITE]
          IN  /\ stored =>
                   \A k \in FiredAfterWrite(last') :
                       (/\ hs[k].store_result_as # "None"
                        /\ \A m \in FiredAfterWrite(last') :
                             (m > k) =>
                               hs[m].store_result_as # hs[k].store_result_as)
                       => automation_results'[hs[k].store_result_as][StoreSlot]
                            = ReturnOf(last', k)
              /\ \A c \in DOMAIN automation_results : \A i \in Slots :
                   automation_results'[c][i] # automation_results[c][i]
                     => (stored /\ i = StoreSlot)
      ]_vars

\* C10: a write call whose item fails validation raises ValueError without
\* having invoked any guard or action, and changes no result-column cell,
\* no slot and no pointer.
C10_ValidationBeforeHooks ==
    [][ (kind # "state" /\ last'.op = "write"
           /\ validation_error(last'.item)) =>
          /\ last'.kind = "raise" /\ last'.exc = "ValueError"
          /\ last'.calls = <<>>
          /\ automation_results' = automation_results
          /\ buffer' = buffer
          /\ write_pointer' = write_pointer
          /\ read_pointer' = read_pointer
      ]_vars

\* C12 (as claimed): in every reachable state of every variant the write
\* pointer and the read pointer are both in 0 .. Size-1.
C12_PointersInRange ==
    /\ write_pointer \in Slots
    /\ read_pointer \in Slots

\* The positions that address a slot of a StateBuffer with namespace ns,
\* and what is wrong with the others.
AddressCase(ns, p) ==
    IF p.t = "str" /\ ns # NoNamespace
    THEN IF in_namespace(ns, p.v) THEN "ok" ELSE "key"
    ELSE IF p.t = "int" /\ ns = NoNamespace
    THEN IF p.v \in Slots THEN "ok" ELSE "bounds"
    ELSE "mode"

\* C14: in a StateBuffer, read(position) of a valid position returns the
\* item of the last write(item, position) to that same position, whatever
\* was written to other positions since.
C14_StateRoundTrip ==
    kind = "state" =>
        \A p \in Positions :
            (AddressCase(namespace, p) = "ok" /\ written[p.v] # Unwritten) =>
                LET r == State_read(Self, namespace, p)
                IN  r.kind = "elem" /\ r.val = written[p.v]

\* A read has returned a non-zero item written earlier, after a write to
\* another position.
C14_Witness ==
    /\ kind = "state"
    /\ last.op = "read"
    /\ last.kind = "elem"
    /\ last.val # 0
    /\ last.val = written[last.position.v]
    /\ \E v \in 0 .. Size :
          /\ v # last.position.v
          /\ written[v] \notin {Unwritten, last.val}

C11_IdempotentRegistration ==
    [][ (/\ last'.op = "add_automation"
         /\ last'.hook.when \in Events
         /\ \E k \in 1 .. Len(automations[last'.hook.when]) :
               automations[last'.hook.when][k].function
                   = last'.hook.function) =>
          /\ automations' = automations
          /\ automation_results' = automation_results
      ]_vars

\* The columns the actions invoked in the call recorded in r stored into.
ColumnsStored(r) ==
    {automations[r.calls[n].event][r.calls[n].k].store_result_as :
        n \in {m \in 1 .. Len(r.calls) :
                  r.calls[m].what = "action" /\ r.calls[m].ret # Fails}}

\* C13: a result column that exists keeps existing, and a cell of it
\* changes only in a write or read call in which a hook registered with
\* that column ran and stored its result; add_automation changes no cell of
\* an existing column.
C13_ColumnsPersist ==
    [][ \A c \in DOMAIN automation_results :
          /\ c \in DOMAIN automation_results'
          /\ automation_results'[c] # automation_results[c] =>
               /\ last'.op \in {"write", "read"}
               /\ c \in ColumnsStored(last')
      ]_vars

\* The calls of one event's hooks in a call log: every hook's guard (if it
\* has one) and then its action (if the guard is absent or true), hook by
\* hook in registration order.
RECURSIVE ExpectedCalls(_, _, _)
ExpectedCalls(event, k, calls) ==
    IF k > Len(automations[event]) THEN calls = <<>>
    ELSE LET guarded == automations[event][k].condition # "None"
             n == IF guarded THEN 2 ELSE 1
         IN  /\ guarded =>
                 /\ Len(calls) >= 1
                 /\ calls[1].what = "guard" /\ calls[1].k = k
             /\ IF guarded /\ calls[1].ret # 1
                THEN ExpectedCalls(event, k + 1, Tail(calls))
                ELSE /\ Len(calls) >= n
                     /\ calls[n].what = "action" /\ calls[n].k = k
                     /\ ExpectedCalls(event, k + 1,
                                      SubSeq(calls, n + 1, Len(calls)))

OfEvent(calls, event) ==
    SelectSeq(calls, LAMBDA c : c.event = event /\ c.what # "place")

\* C16: a write call that completes has run the BEFORE_WRITE hooks in
\* registration order (each action only if its guard is absent or true),
\* then the placement, then the AFTER_WRITE hooks in registration order;
\* a read call that completes has done the same with BEFORE_READ and
\* AFTER_READ.  This holds for RingBuffer, QueueBuffer and StateBuffer.
C16_HooksAroundPlacement ==
    [][ (last'.op \in {"write", "read"} /\ last'.kind # "raise") =>
          LET before == IF last'.op = "write" THEN BEFORE_WRITE
                        ELSE BEFORE_READ
              after == IF last'.op = "write" THEN AFTER_WRITE ELSE AFTER_READ
              calls == last'.calls
              place == Call("place", after, 0, 0)
          IN  /\ calls = OfEvent(calls, before) \o <<place>>
                            \o OfEvent(calls, after)
              /\ ExpectedCalls(before, 1, OfEvent(calls, before))
              /\ ExpectedCalls(after, 1, OfEvent(calls, after))
      ]_vars

\* The slot a read placement that is about to run reads.
FrontSlot == IF kind = "ring" THEN read_pointer ELSE 0

\* C17: with only AFTER_READ hooks registered on a RingBuffer or
\* QueueBuffer, a read call on a buffer that is not empty returns an
\* element and leaves the return value of every unguarded hook that has a
\* result column in the column cell of the slot the element was read from;
\* a read call changes no other cell, and a read call on an empty buffer
\* changes none.
C17_AfterReadCell ==
    [][ (/\ kind # "state"
         /\ last'.op = "read"
         /\ automations[BEFORE_READ] = <<>>
         /\ \E k \in 1 .. Len(automations[AFTER_READ]) :
               automations[AFTER_READ][k].store_result_as # "None") =>
          LET hs == automations[AFTER_READ]
              returns == ~is_empty(kind, Self)
              calls == last'.calls
          IN  /\ returns =>
                   /\ last'.kind = "elem"
                   /\ \A k \in 1 .. Len(hs) :
                        (hs[k].condition = "None"
                           /\ hs[k].store_result_as # "None") =>
                          \E n \in 1 .. Len(calls) :
                              /\ calls[n] = Call("action", AFTER_READ, k,
                                                 calls[n].ret)
                              /\ automation_results'[hs[k].store_result_as]
                                                    [FrontSlot] = calls[n].ret
              /\ \A c \in DOMAIN automation_results : \A i \in Slots :
                   automation_results'[c][i] # automation_results[c][i]
                     => (returns /\ i = FrontSlot)
      ]_vars

\* C18: on a RingBuffer or QueueBuffer, a BEFORE_WRITE hook with a result
\* column that runs in a write of a valid item stores its return value,
\* without an IndexError, in the column cell of the slot the placement then
\* writes; a BEFORE_READ hook stores it in the cell of the slot the
\* placement then reads.
C18_BeforeCell ==
    [][ (/\ kind # "state"
         /\ last'.op \in {"write", "read"}
         /\ last'.op = "write" => ~validation_error(last'.item)) =>
          LET before == IF last'.op = "write" THEN BEFORE_WRITE
                        ELSE BEFORE_READ
              slot == IF last'.op = "write" THEN StoreSlot ELSE FrontSlot
              calls == last'.calls
          IN  \A n \in 1 .. Len(calls) :
                (/\ calls[n].what = "action"
                 /\ calls[n].event = before
                 /\ calls[n].ret # Fails
                 /\ automations[before][calls[n].k].store_result_as
                        # "None") =>
                  /\ last'.exc # "IndexError"
                  /\ automation_results'
                        [automations[before][calls[n].k].store_result_as]
                        [slot] = calls[n].ret
      ]_vars

\* C19: when a guard or an action raises in a write or read call, it is the
\* last callback of the call and the call raises its exception; if it
\* belongs to a BEFORE hook, no slot and no pointer has changed; if it
\* belongs to an AFTER_WRITE hook, slots and pointers are as the placement
\* left them.
C19_HookFailurePropagates ==
    [][ (last'.op \in {"write", "read"}) =>
          \A n \in 1 .. Len(last'.calls) :
            last'.calls[n].ret = Fails =>
              /\ n = Len(last'.calls)
              /\ last'.kind = "raise"
              /\ last'.exc = "HookError"
              /\ last'.calls[n].event \in {BEFORE_WRITE, BEFORE_READ} =>
                   /\ buffer' = buffer
                   /\ write_pointer' = write_pointer
                   /\ read_pointer' = read_pointer
              /\ last'.calls[n].event = AFTER_WRITE =>
                   Self' = write_operation(kind, Self, last'.item,
                                           over_write).self
      ]_vars

\* The first of two AFTER_WRITE hooks raised after the placement stored an
\* element.
C19_Witness ==
    /\ last.op = "write"
    /\ last.exc = "HookError"
    /\ Len(automations[AFTER_WRITE]) = 2
    /\ last.calls[Len(last.calls)].event = AFTER_WRITE
    /\ last.calls[Len(last.calls)].k = 1
    /\ \E i \in Slots : buffer[i] # 0

\* C20: a RingBuffer read that returns an element never returns the element
\* of a slot whose element an earlier read has returned and that has not
\* been written since.
C20_ReadAtMostOnce ==
    [][ (/\ kind = "ring"
         /\ last'.op \in {"read", "_read_operation"}
         /\ last'.kind = "elem") =>
          slot_status[read_pointer] # "read"
      ]_vars

\* C21: a RingBuffer read that returns an element returns it from a slot
\* that an earlier write has stored an item in, and the element is the
\* value the last such write stored there.
C21_ReadsWrittenSlots ==
    [][ (/\ kind = "ring"
         /\ last'.op \in {"read", "_read_operation"}
         /\ last'.kind = "elem") =>
          /\ slot_status[read_pointer] # "never"
          /\ written[read_pointer] # Unwritten
          /\ last'.val = written[read_pointer]
      ]_vars

\* A read has returned a non-zero element while a slot of the ring has
\* never been written.
C21_Witness ==
    /\ kind = "ring"
    /\ last.op = "_read_operation"
    /\ last.kind = "elem"
    /\ last.val # 0
    /\ \E i \in Slots : slot_status[i] = "never"
====
